---- MODULE Spec2Model ----
(***************************************************************************)
(* Adaptive behavioural risk engine of zero-trust-auth (backend/app.py,    *)
(* models.py, ml_engine.py, risk_calculator.py).                           *)
(*                                                                         *)
(* The state is the four PostgreSQL tables the engine reads and writes     *)
(* (behaviors, behavior_baselines, ml_models, risk_scores), the two joblib *)
(* files MLEngine keeps per user, and the HTTP response of the last        *)
(* request.  A table restricted to one user is a sequence of rows in       *)
(* insertion order; a table with UNIQUE(user_id) holds zero or one row.    *)
(*                                                                         *)
(* Numbers: Python floats are kept in fixed point.  A score with four      *)
(* decimals is an integer number of 1/10000 ("fine" units); a value that   *)
(* the code passes through round(x, 2) is an integer number of 1/100.      *)
(***************************************************************************)
EXTENDS Integers, Sequences, FiniteSets, TLC

VARIABLES
    behaviors,      \* [Users -> Seq(row)]   table behaviors, oldest first
    baselines,      \* [Users -> Seq(row)]   table behavior_baselines (<= 1 row)
    ml_models,      \* [Users -> Seq(row)]   table ml_models (<= 1 row)
    risk_scores,    \* [Users -> [n, latest]] table risk_scores: row count, newest row
    model_file,     \* [Users -> Seq(artifact)] ml_models/user_<id>_model.joblib
    scaler_file,    \* [Users -> Seq(artifact)] ml_models/user_<id>_scaler.joblib
    train_runs,     \* number of MLEngine.train calls so far (names the artifacts)
    logged,         \* [Users -> BOOLEAN] history: a sample came through /api/behavior/log
    response,       \* the response the last finished request returned
    req,            \* [Procs -> request in flight]  (step-level specification)
    call            \* a direct call of one function: its arguments, then its result

vars == <<behaviors, baselines, ml_models, risk_scores, model_file, scaler_file,
          train_runs, logged, response, req, call>>

tables == <<behaviors, baselines, ml_models, risk_scores, model_file, scaler_file,
            train_runs, logged>>

-----------------------------------------------------------------------------
(* Bounds of the model *)

\* samples one identity may hold in the general specification
MaxBehaviors == 11
\* samples that differ from the usual sample, per identity
MaxOdd == 1
\* samples of the identity in the long sequential run
MaxSeqBehaviors == 121
\* MLEngine.train calls in one run of the general specification
MaxTrainRuns == 2
\* samples of the identity when its requests overlap
MaxConcBehaviors == 11

Users == {1, 2}

Min(a, b) == IF a < b THEN a ELSE b
Max(a, b) == IF a > b THEN a ELSE b
Abs(a) == IF a < 0 THEN -a ELSE a

-----------------------------------------------------------------------------
(* Request bodies: Python dicts, a field may be missing *)

Has(d, f) == f \in DOMAIN d
Get(d, f, default) == IF Has(d, f) THEN d[f] ELSE default

UsualSample ==
    [typing_speed |-> 60, session_hour |-> 14, location_lat |-> 10,
     location_lng |-> 20, device_model |-> "Pixel", device_os |-> "Android"]

OddSample ==
    [typing_speed |-> 90, session_hour |-> 14, location_lat |-> 10,
     location_lng |-> 20, device_model |-> "iPhone", device_os |-> "iOS"]

\* a request that names only its typing speed and place
BareSample == [typing_speed |-> 60, location_lat |-> 10, location_lng |-> 20]

\* the JSON body {}
EmptyBody == [f \in {} |-> 0]

Samples == {UsualSample, OddSample}
Bodies == Samples \cup {EmptyBody}

-----------------------------------------------------------------------------
(* models.py: Behavior *)

\* Behavior.create: the inserted row, missing fields take the defaults
BehaviorRow(data) ==
    [typing_speed |-> Get(data, "typing_speed", 0),
     session_hour |-> Get(data, "session_hour", 0),
     location_lat |-> Get(data, "location_lat", 0),
     location_lng |-> Get(data, "location_lng", 0),
     device_model |-> Get(data, "device_model", "Unknown"),
     device_os    |-> Get(data, "device_os", "Unknown")]

\* the rows if the query read the oldest first: ORDER BY timestamp LIMIT limit
GetUserBehaviorsOldestFirst(rows, limit) ==
    [i \in 1..Min(Len(rows), limit) |-> rows[i]]

\* Behavior.get_user_behaviors: ORDER BY timestamp DESC LIMIT limit
GetUserBehaviors(rows, limit) ==
    [i \in 1..Min(Len(rows), limit) |-> rows[Len(rows) + 1 - i]]

\* Behavior.count_user_behaviors
CountUserBehaviors(rows) == Len(rows)

\* Behavior.get_recent_for_baseline(limit=50)
BaselineWindow == 50
GetRecentForBaseline(rows) == GetUserBehaviors(rows, BaselineWindow)

-----------------------------------------------------------------------------
(* models.py: BehaviorBaseline *)

RECURSIVE SumField(_, _)
SumField(rows, f) ==
    IF rows = <<>> THEN 0 ELSE rows[1][f] + SumField(Tail(rows), f)

\* sum(b[f] for b in behaviors) / len(behaviors), in 1/100
Avg100(rows, f) == (SumField(rows, f) * 100) \div Len(rows)

Occurrences(rows, f, v) == Cardinality({i \in 1..Len(rows) : rows[i][f] = v})

\* max(set(values), key=values.count): a most frequent value; among equally
\* frequent values the winner is the one the set happens to iterate first,
\* which depends on the interpreter's string hashing, so any of them
MostCommon(rows, f) ==
    {v \in {rows[i][f] : i \in 1..Len(rows)} :
        \A j \in 1..Len(rows) : Occurrences(rows, f, rows[j][f]) <= Occurrences(rows, f, v)}

MinBaselineSamples == 5

\* the rows calculate_and_save might upsert if it computed on any sample at all
BaselineRowsFromOne(rows) ==
    LET window == GetRecentForBaseline(rows) IN
    IF Len(window) < 1 THEN {}
    ELSE {[avg_typing_speed    |-> Avg100(window, "typing_speed"),
           avg_session_hour    |-> Avg100(window, "session_hour"),
           avg_location_lat    |-> Avg100(window, "location_lat"),
           avg_location_lng    |-> Avg100(window, "location_lng"),
           common_device_model |-> m,
           common_device_os    |-> o,
           total_sessions      |-> Len(window)] :
              m \in MostCommon(window, "device_model"),
              o \in MostCommon(window, "device_os")}

\* BehaviorBaseline.calculate_and_save: the rows it may upsert (none when
\* fewer than 5 behaviours are stored: it returns None and writes nothing)
BaselineRows(rows) ==
    LET window == GetRecentForBaseline(rows) IN
    IF Len(window) < MinBaselineSamples THEN {}
    ELSE {[avg_typing_speed    |-> Avg100(window, "typing_speed"),
           avg_session_hour    |-> Avg100(window, "session_hour"),
           avg_location_lat    |-> Avg100(window, "location_lat"),
           avg_location_lng    |-> Avg100(window, "location_lng"),
           common_device_model |-> m,
           common_device_os    |-> o,
           total_sessions      |-> Len(window)] :
              m \in MostCommon(window, "device_model"),
              o \in MostCommon(window, "device_os")}

\* INSERT ... ON CONFLICT (user_id) DO UPDATE SET <every column>
Upsert(table, row) ==
    IF table = <<>> THEN <<row>> ELSE [table EXCEPT ![1] = row]

\* the baseline table if the upsert left avg_typing_speed of an existing row alone
SaveBaselineKeepingTyping(table, row) ==
    IF table = <<>> THEN <<row>>
    ELSE <<[row EXCEPT !.avg_typing_speed = table[1].avg_typing_speed]>>

\* the baseline table after calculate_and_save chose `row`
SaveBaseline(table, row) == Upsert(table, row)

\* all outcomes of calculate_and_save on the stored behaviours `rows`:
\* the table afterwards and the value returned (<<>> is None)
CalculateAndSave(table, rows) ==
    IF BaselineRows(rows) = {}
    THEN {[table |-> table, returned |-> <<>>]}
    ELSE {[table |-> SaveBaseline(table, row), returned |-> <<row>>] :
              row \in BaselineRows(rows)}

-----------------------------------------------------------------------------
(* models.py: MLModel, RiskScore *)

\* MLModel.update_training_status
TrainingStatusRow(training_result) ==
    [is_trained |-> TRUE, training_samples |-> training_result.training_samples]

UpdateTrainingStatus(table, training_result) ==
    Upsert(table, TrainingStatusRow(training_result))

\* MLModel.is_trained
IsTrained(table) == IF table = <<>> THEN FALSE ELSE table[1].is_trained

NoRisk ==
    [risk_score |-> 0, risk_level |-> "NONE", action_taken |-> "NONE",
     typing_deviation |-> 0, location_deviation |-> 0, time_deviation |-> 0,
     device_deviation |-> 0, ml_anomaly_score |-> 0]

\* RiskScore.create: one more row, which is now the newest
RiskScoreCreate(table, risk_data) ==
    [n |-> table.n + 1,
     latest |-> [risk_score         |-> risk_data.risk_score,
                 risk_level         |-> risk_data.risk_level,
                 action_taken       |-> risk_data.action_taken,
                 typing_deviation   |-> risk_data.typing_deviation,
                 location_deviation |-> risk_data.location_deviation,
                 time_deviation     |-> risk_data.time_deviation,
                 device_deviation   |-> risk_data.device_deviation,
                 ml_anomaly_score   |-> risk_data.ml_anomaly_score]]

-----------------------------------------------------------------------------
(* risk_calculator.py.  An argument that may be None is a sequence: <<>>  *)
(* is None, <<v>> is the value v.                                         *)

Opt(d, f) == IF Has(d, f) THEN <<d[f]>> ELSE <<>>
\* Python truthiness of a string, of a number, that may be None
TruthyStr(o) == o # <<>> /\ o[1] # ""
TruthyNum(o) == o # <<>> /\ o[1] # 0

Fine == 10000
Cap100 == 100 * Fine
\* round(x, 2) of a value in fine units, as a number of 1/100
Round2(x) == (x + 50) \div 100

\* n / d in fine units for n >= 0 and d > 0 (whole from 100 on), the quotient and
\* the remainder scaled apart so that no product leaves the 32-bit integers
InFine(n, d) ==
    IF n \div d >= 100 THEN (n \div d) * Fine
    ELSE (n \div d) * Fine + ((n % d) * Fine) \div d

\* calculate_typing_deviation; speeds and std_dev in 1/100, result in fine units
CalculateTypingDeviation(current_speed, baseline_speed, std_dev) ==
    IF baseline_speed = 0 THEN 0
    ELSE LET deviation == Abs(current_speed - baseline_speed)
             divisor   == IF std_dev > 0 THEN std_dev ELSE baseline_speed
         IN  IF divisor > 0
             THEN Min(InFine(deviation * 30, divisor), Cap100)
             ELSE 0 - InFine(deviation * 30, 0 - divisor)

\* calculate_distance: the haversine distance, in 1/100 km, of two points given
\* in 1/100 degree, taken as 111 km per degree of the larger difference (the
\* arc along a meridian, where the calls of this model lie)
KmPerDegree == 111
CalculateDistance(lat1, lon1, lat2, lon2) ==
    IF lat1 = 0 \/ lon1 = 0 \/ lat2 = 0 \/ lon2 = 0 THEN 0
    ELSE KmPerDegree * Max(Abs(lat2 - lat1), Abs(lon2 - lon1))

\* the piecewise map of calculate_location_deviation, distance in 1/100 km
PerKm == 100
LocationScore(distance) ==
    IF distance < 10 * PerKm THEN 0
    ELSE IF distance < 50 * PerKm
         THEN InFine((distance - 10 * PerKm) * 25, 40 * PerKm)
    ELSE IF distance < 200 * PerKm
         THEN 25 * Fine + InFine((distance - 50 * PerKm) * 25, 150 * PerKm)
    ELSE IF distance < 500 * PerKm
         THEN 50 * Fine + InFine((distance - 200 * PerKm) * 50, 300 * PerKm)
    ELSE Cap100

\* calculate_location_deviation; coordinates in 1/100 degree
CalculateLocationDeviation(current_lat, current_lng, baseline_lat, baseline_lng) ==
    IF ~(TruthyNum(current_lat) /\ TruthyNum(current_lng)
            /\ TruthyNum(baseline_lat) /\ TruthyNum(baseline_lng))
    THEN 0
    ELSE Min(LocationScore(CalculateDistance(current_lat[1], current_lng[1],
                                             baseline_lat[1], baseline_lng[1])),
             Cap100)

\* calculate_time_deviation; hours in 1/100 hour
CalculateTimeDeviation(current_hour, baseline_hour) ==
    IF baseline_hour = <<>> \/ current_hour = <<>> THEN 0
    ELSE LET d0   == Abs(current_hour[1] - baseline_hour[1])
             diff == IF d0 > 1200 THEN 2400 - d0 ELSE d0
             score == IF diff <= 200 THEN 0
                      ELSE IF diff <= 500 THEN ((diff - 200) * 25 * 100) \div 3
                      ELSE IF diff <= 800 THEN 25 * Fine + ((diff - 500) * 25 * 100) \div 3
                      ELSE 50 * Fine + ((diff - 800) * 50 * 100) \div 4
         IN  Min(score, Cap100)

NewDeviceScore == 80

\* the device deviation if an empty history did not return 0 first
CalculateDeviceDeviationOfMembership(current_device, current_os, baseline_behaviors) ==
    IF ~TruthyStr(current_device) THEN 0
    ELSE IF \E i \in 1..Len(baseline_behaviors) :
                /\ <<baseline_behaviors[i].device_model>> = current_device
                /\ <<baseline_behaviors[i].device_os>> = current_os
         THEN 0
         ELSE NewDeviceScore * Fine

\* calculate_device_deviation
CalculateDeviceDeviation(current_device, current_os, baseline_behaviors) ==
    IF baseline_behaviors = <<>> \/ ~TruthyStr(current_device) THEN 0
    ELSE IF \E i \in 1..Len(baseline_behaviors) :
                /\ <<baseline_behaviors[i].device_model>> = current_device
                /\ <<baseline_behaviors[i].device_os>> = current_os
         THEN 0
         ELSE NewDeviceScore * Fine

\* calculate_overall_risk with WEIGHTS typing 0.30, location 0.25, time 0.20, device 0.25
WeightTyping == 30
WeightLocation == 25
WeightTime == 20
WeightDevice == 25
CalculateOverallRisk(deviations) ==
    Min((deviations.typing * WeightTyping + deviations.location * WeightLocation
            + deviations.time * WeightTime + deviations.device * WeightDevice) \div 100,
        Cap100)

LowBelow == 30
MediumBelow == 60
\* get_risk_level, score in fine units
GetRiskLevel(score) ==
    IF score < LowBelow * Fine THEN "LOW"
    ELSE IF score < MediumBelow * Fine THEN "MEDIUM" ELSE "HIGH"

\* get_action, score in fine units
GetAction(score) ==
    IF score < LowBelow * Fine THEN "ALLOW"
    ELSE IF score < MediumBelow * Fine THEN "WARN" ELSE "BLOCK"

\* the four deviations if the place and the hour were compared with the
\* averages the baseline row does hold
DeviationsOfAverages(current_behavior, baseline, recent_behaviors, hour_now) ==
    [typing   |-> CalculateTypingDeviation(Get(current_behavior, "typing_speed", 0) * 100,
                                           Get(baseline, "avg_typing_speed", 0),
                                           Get(baseline, "std_typing_speed", 0)),
     location |-> CalculateLocationDeviation(
                      IF Has(current_behavior, "location_lat")
                          THEN <<current_behavior.location_lat * 100>> ELSE <<>>,
                      IF Has(current_behavior, "location_lng")
                          THEN <<current_behavior.location_lng * 100>> ELSE <<>>,
                      Opt(baseline, "avg_location_lat"),
                      Opt(baseline, "avg_location_lng")),
     time     |-> CalculateTimeDeviation(
                      IF Has(current_behavior, "session_hour")
                          THEN <<current_behavior.session_hour * 100>>
                          ELSE <<hour_now * 100>>,
                      Opt(baseline, "avg_session_hour")),
     device   |-> CalculateDeviceDeviation(Opt(current_behavior, "device_model"),
                                           Opt(current_behavior, "device_os"),
                                           recent_behaviors)]

\* the four deviations of calculate_risk; `hour_now` is datetime.now().hour,
\* read when the request carries no session_hour
Deviations(current_behavior, baseline, recent_behaviors, hour_now) ==
    [typing   |-> CalculateTypingDeviation(Get(current_behavior, "typing_speed", 0) * 100,
                                           Get(baseline, "avg_typing_speed", 0),
                                           Get(baseline, "std_typing_speed", 0)),
     location |-> CalculateLocationDeviation(
                      IF Has(current_behavior, "location_lat")
                          THEN <<current_behavior.location_lat * 100>> ELSE <<>>,
                      IF Has(current_behavior, "location_lng")
                          THEN <<current_behavior.location_lng * 100>> ELSE <<>>,
                      Opt(baseline, "common_location_lat"),
                      Opt(baseline, "common_location_lng")),
     time     |-> CalculateTimeDeviation(
                      IF Has(current_behavior, "session_hour")
                          THEN <<current_behavior.session_hour * 100>>
                          ELSE <<hour_now * 100>>,
                      Opt(baseline, "common_session_hour")),
     device   |-> CalculateDeviceDeviation(Opt(current_behavior, "device_model"),
                                           Opt(current_behavior, "device_os"),
                                           recent_behaviors)]

\* RiskCalculator.calculate_risk
CalculateRiskBase(current_behavior, baseline, recent_behaviors, hour_now) ==
    LET deviations == Deviations(current_behavior, baseline, recent_behaviors, hour_now)
        risk_score == CalculateOverallRisk(deviations)
    IN  [risk_score         |-> Round2(risk_score),
         risk_level         |-> GetRiskLevel(risk_score),
         action_taken       |-> GetAction(risk_score),
         typing_deviation   |-> Round2(deviations.typing),
         location_deviation |-> Round2(deviations.location),
         time_deviation     |-> Round2(deviations.time),
         device_deviation   |-> Round2(deviations.device),
         ml_anomaly_score   |-> 0]

MlWeight == 30
BaseWeight == 70
\* RiskCalculator.calculate_risk_with_ml; ml_score in 1/100
CalculateRiskWithMl(current_behavior, baseline, recent_behaviors, hour_now, ml_score) ==
    LET base_risk == CalculateRiskBase(current_behavior, baseline, recent_behaviors, hour_now)
        combined_score == base_risk.risk_score * BaseWeight + ml_score * MlWeight
    IN  [base_risk EXCEPT !.risk_score       = Round2(combined_score),
                          !.risk_level       = GetRiskLevel(combined_score),
                          !.action_taken     = GetAction(combined_score),
                          !.ml_anomaly_score = ml_score]

-----------------------------------------------------------------------------
(* ml_engine.py.  The fitted IsolationForest and StandardScaler are opaque: *)
(* an artifact is known by the training run that produced it and by the     *)
(* number of samples it was fitted on.                                      *)

MinTrainSamples == 10

\* MLEngine.feature_names of this build, and of a build with other features
CurrentFeatures == "typing_speed..screen_height"
OtherFeatures == "features of another build"

\* a file joblib.dump wrote: the training run, its sample count and the
\* features it was fitted on
Artifact(run, samples) ==
    [run |-> run, samples |-> samples, features |-> CurrentFeatures]

\* a file left by a build with other features, and one joblib.load raises on
ForeignArtifact == [Artifact(1, 10) EXCEPT !.features = OtherFeatures]
CorruptArtifact == [Artifact(1, 10) EXCEPT !.features = "unreadable"]

\* storage faults a training run may meet
TrainFaults == {"none", "fit", "dump_scaler"}

\* a training that wrote the detector file before it counted the samples
TrainDumpingFirst(mfile, sfile, samples, run, fault) ==
    IF samples < MinTrainSamples
    THEN [model_file |-> <<Artifact(run, samples)>>, scaler_file |-> sfile,
          fitted |-> FALSE,
          result |-> [success |-> FALSE, training_samples |-> 0,
                      samples_provided |-> samples]]
    ELSE [model_file |-> <<Artifact(run, samples)>>,
          scaler_file |-> <<Artifact(run, samples)>>, fitted |-> TRUE,
          result |-> [success |-> TRUE, training_samples |-> samples,
                      samples_provided |-> 0]]

\* MLEngine.train on `samples` behaviours, as training run number `run`: the
\* two files afterwards and the result dict.  joblib.dump(model) comes before
\* joblib.dump(scaler); an exception anywhere gives {'success': False}
Train(mfile, sfile, samples, run, fault) ==
    IF samples < MinTrainSamples
    THEN [model_file |-> mfile, scaler_file |-> sfile, fitted |-> FALSE,
          result |-> [success |-> FALSE, training_samples |-> 0,
                      samples_provided |-> samples]]
    ELSE IF fault = "fit"
    THEN [model_file |-> mfile, scaler_file |-> sfile, fitted |-> TRUE,
          result |-> [success |-> FALSE, training_samples |-> 0,
                      samples_provided |-> 0]]
    ELSE IF fault = "dump_scaler"
    THEN [model_file |-> <<Artifact(run, samples)>>, scaler_file |-> sfile,
          fitted |-> TRUE,
          result |-> [success |-> FALSE, training_samples |-> 0,
                      samples_provided |-> 0]]
    ELSE [model_file |-> <<Artifact(run, samples)>>,
          scaler_file |-> <<Artifact(run, samples)>>, fitted |-> TRUE,
          result |-> [success |-> TRUE, training_samples |-> samples,
                      samples_provided |-> 0]]

\* MLEngine.load_model: both files must exist and load
LoadModel(mfile, sfile) ==
    /\ mfile # <<>> /\ sfile # <<>>
    /\ mfile[1] # CorruptArtifact /\ sfile[1] # CorruptArtifact

\* MLEngine._normalize_anomaly_score; raw score and result in fine units
NormalizeAnomalyScore(raw_score) ==
    LET normalized == IF raw_score >= 0
                      THEN Max(0, 30 * Fine - raw_score * 60)
                      ELSE 30 * Fine + Abs(raw_score) * 140
    IN  Min(Cap100, Max(0, normalized))

\* what the fitted detector may say of one sample: score_samples (fine
\* units; sklearn's score_samples lies in [-1, 0]) and predict == -1
Detections == {[raw_score |-> -4286, outlier |-> TRUE, raised |-> FALSE],
               [raw_score |-> -1000, outlier |-> FALSE, raised |-> FALSE]}

\* an exception between engineer_features and _normalize_anomaly_score
RaisedDetection == [raw_score |-> 0, outlier |-> FALSE, raised |-> TRUE]

\* a prediction that went on without a loaded model
PredictUnloaded(mfile, sfile, detection) ==
    IF detection.raised
    THEN [success |-> FALSE, anomaly_score |-> 0, is_anomaly |-> FALSE,
          model |-> 0, scaler |-> 0]
    ELSE [success |-> TRUE,
          anomaly_score |-> Round2(NormalizeAnomalyScore(detection.raw_score)),
          is_anomaly |-> detection.outlier,
          model |-> 0, scaler |-> 0]

\* MLEngine.predict on the detector and scaler files as it finds them
Predict(mfile, sfile, detection) ==
    IF ~LoadModel(mfile, sfile) \/ detection.raised
    THEN [success |-> FALSE, anomaly_score |-> 0, is_anomaly |-> FALSE,
          model |-> 0, scaler |-> 0]
    ELSE [success |-> TRUE,
          anomaly_score |-> Round2(NormalizeAnomalyScore(detection.raw_score)),
          is_anomaly |-> detection.outlier,
          model |-> mfile[1].run, scaler |-> sfile[1].run]

\* MLEngine.retrain_check
RetrainCheck(total_behaviors) ==
    IF total_behaviors < 10 THEN FALSE ELSE total_behaviors % 20 = 0

-----------------------------------------------------------------------------
(* app.py: responses *)

NoResponse ==
    [op |-> "none", user |-> 0, status |-> 0, success |-> FALSE,
     risk_score |-> 0, risk_level |-> "NONE", action |-> "NONE",
     ml_enabled |-> FALSE, typing |-> 0, location |-> 0, time |-> 0,
     device |-> 0, ml_anomaly |-> 0, total_behaviors |-> 0,
     baseline_updated |-> FALSE, model |-> 0, scaler |-> 0]

Reply(op, u, status, success, fields) ==
    fields @@ [NoResponse EXCEPT !.op = op, !.user = u, !.status = status,
                                 !.success = success]

\* the body calculate_risk returns when the user has no baseline (app.py 489-494)
UnknownRisk(u) ==
    Reply("calculate_risk", u, 200, FALSE, [risk_score |-> 0, risk_level |-> "UNKNOWN"])

\* the body calculate_risk returns after scoring (app.py 550-563)
RiskReply(u, risk_result, ml_trained) ==
    Reply("calculate_risk", u, 200, TRUE,
          [risk_score |-> risk_result.risk_score,
           risk_level |-> risk_result.risk_level,
           action     |-> risk_result.action_taken,
           ml_enabled |-> ml_trained,
           typing     |-> risk_result.typing_deviation,
           location   |-> risk_result.location_deviation,
           time       |-> risk_result.time_deviation,
           device     |-> risk_result.device_deviation,
           ml_anomaly |-> risk_result.ml_anomaly_score])

-----------------------------------------------------------------------------
(* app.py: the scheduler's conditions *)

RecentLimit == 20
\* a retraining that read only the recent window
TrainLimitRecent == RecentLimit
TrainLimit == 100

\* a log route that followed the risk route's schedule instead
LogBaselineDueAtFiveOrTens(behavior_count) ==
    behavior_count = 5 \/ behavior_count % 10 = 0

\* log_behavior: "Auto-calculate baseline after 5 behaviors"
LogBaselineDue(behavior_count) == behavior_count >= 5

\* calculate_risk: "Auto-train after 10 behaviors if not trained"
AutoTrainDue(behavior_count, ml_trained) == behavior_count = 10 /\ ~ml_trained

\* a retraining every 20 samples counted from the first training at 10
AutoRetrainDueTwentyAfterTen(behavior_count, ml_trained) ==
    /\ ml_trained
    /\ behavior_count > 10
    /\ (behavior_count - 10) % 20 = 0

\* calculate_risk: "Auto-retrain every 20 behaviors"
AutoRetrainDue(behavior_count, ml_trained) ==
    ~AutoTrainDue(behavior_count, ml_trained) /\ ml_trained /\ behavior_count % 20 = 0

\* calculate_risk: "Update baseline every 10 behaviors"
BaselineUpdateDue(behavior_count) == behavior_count % 10 = 0

-----------------------------------------------------------------------------
(* State after construction: empty tables, no model files *)

Procs == {1, 2}

Idle == [pc |-> "idle"]

\* no function is called directly
NoCall == [fn |-> "none"]

Init ==
    /\ behaviors = [u \in Users |-> <<>>]
    /\ baselines = [u \in Users |-> <<>>]
    /\ ml_models = [u \in Users |-> <<>>]
    /\ risk_scores = [u \in Users |-> [n |-> 0, latest |-> NoRisk]]
    /\ model_file = [u \in Users |-> <<>>]
    /\ scaler_file = [u \in Users |-> <<>>]
    /\ train_runs = 0
    /\ logged = [u \in Users |-> FALSE]
    /\ response = NoResponse
    /\ req = [p \in Procs |-> Idle]
    /\ call = NoCall

-----------------------------------------------------------------------------
(* app.py: the handlers, one request at a time *)

\* POST /api/behavior/log
LogBehavior(u, data) ==
    IF DOMAIN data = {} \/ ~(Has(data, "typing_speed") /\ Has(data, "session_hour"))
    THEN /\ response' = Reply("log_behavior", u, 400, FALSE, [op |-> "log_behavior"])
         /\ UNCHANGED <<tables, req, call>>
    ELSE LET rows == Append(behaviors[u], BehaviorRow(data))
             behavior_count == CountUserBehaviors(rows)
         IN  /\ behaviors' = [behaviors EXCEPT ![u] = rows]
             /\ logged' = [logged EXCEPT ![u] = TRUE]
             /\ \E out \in (IF LogBaselineDue(behavior_count)
                            THEN CalculateAndSave(baselines[u], rows)
                            ELSE {[table |-> baselines[u], returned |-> <<>>]}) :
                   /\ baselines' = [baselines EXCEPT ![u] = out.table]
                   /\ response' = Reply("log_behavior", u, 201, TRUE,
                                        [total_behaviors |-> behavior_count,
                                         baseline_updated |-> out.returned # <<>>])
             /\ UNCHANGED <<ml_models, risk_scores, model_file, scaler_file,
                            train_runs, req, call>>

\* a no-baseline branch that also wrote its sentinel to risk_scores
CalculateRiskNoBaselineRecorded(u, data) ==
    /\ behaviors' = [behaviors EXCEPT ![u] = Append(@, BehaviorRow(data))]
    /\ risk_scores' = [risk_scores EXCEPT ![u] =
                          RiskScoreCreate(@, [NoRisk EXCEPT !.risk_level = "UNKNOWN"])]
    /\ response' = Reply("calculate_risk", u, 200, FALSE,
                         [risk_score |-> 0, risk_level |-> "UNKNOWN"])
    /\ UNCHANGED <<baselines, ml_models, model_file, scaler_file,
                   train_runs, logged, req, call>>

\* calculate_risk when BehaviorBaseline.get_by_user_id finds no row (app.py 485-494)
CalculateRiskNoBaseline(u, data) ==
    /\ behaviors' = [behaviors EXCEPT ![u] = Append(@, BehaviorRow(data))]
    /\ response' = UnknownRisk(u)
    /\ UNCHANGED <<baselines, ml_models, risk_scores, model_file, scaler_file,
                   train_runs, logged, req, call>>

\* a handler that scored after its own writes
ScoredAgainstAfter(before, after) == after

\* what calculate_risk scores against: the rows and files as it read them at
\* app.py 483-505 (`before`), not as its own writes of 524-548 leave them (`after`)
ScoredAgainst(before, after) == before

\* the risk result if the anomaly score were blended in whenever the files load
RiskResultWheneverPredicted(data, seen, detection, hour_now) ==
    LET ml_prediction == Predict(seen.model_file, seen.scaler_file, detection) IN
    IF ml_prediction.success
    THEN CalculateRiskWithMl(data, seen.baseline, seen.recent_behaviors, hour_now,
                             ml_prediction.anomaly_score)
    ELSE CalculateRiskBase(data, seen.baseline, seen.recent_behaviors, hour_now)

\* app.py 499-521: the risk result from what was read
RiskResult(data, seen, detection, hour_now) ==
    LET ml_prediction == Predict(seen.model_file, seen.scaler_file, detection) IN
    IF seen.ml_trained /\ ml_prediction.success
    THEN CalculateRiskWithMl(data, seen.baseline, seen.recent_behaviors, hour_now,
                             ml_prediction.anomaly_score)
    ELSE CalculateRiskBase(data, seen.baseline, seen.recent_behaviors, hour_now)

\* calculate_risk when the user has a baseline (app.py 496-563)
CalculateRiskScored(u, data, detection, hour_now, fault) ==
    LET before == [baseline |-> baselines[u][1],
                   recent_behaviors |-> GetUserBehaviors(behaviors[u], RecentLimit),
                   ml_trained |-> IsTrained(ml_models[u]),
                   model_file |-> model_file[u],
                   scaler_file |-> scaler_file[u]]
        ml_trained == before.ml_trained
        rows == Append(behaviors[u], BehaviorRow(data))
        behavior_count == CountUserBehaviors(rows)
        train_due == AutoTrainDue(behavior_count, ml_trained)
        retrain_due == AutoRetrainDue(behavior_count, ml_trained)
        trained == Train(model_file[u], scaler_file[u],
                         IF train_due THEN Len(before.recent_behaviors) + 1
                                      ELSE Len(GetUserBehaviors(rows, TrainLimit)),
                         train_runs + 1, fault)
        status == IF (train_due \/ retrain_due) /\ trained.result.success
                  THEN UpdateTrainingStatus(ml_models[u], trained.result)
                  ELSE ml_models[u]
        mfile == IF train_due \/ retrain_due THEN trained.model_file ELSE model_file[u]
        sfile == IF train_due \/ retrain_due THEN trained.scaler_file ELSE scaler_file[u]
    IN  \E out \in (IF BaselineUpdateDue(behavior_count)
                    THEN CalculateAndSave(baselines[u], rows)
                    ELSE {[table |-> baselines[u], returned |-> <<>>]}) :
          LET after == [baseline |-> out.table[1],
                        recent_behaviors |-> GetUserBehaviors(rows, RecentLimit),
                        ml_trained |-> IsTrained(status),
                        model_file |-> mfile,
                        scaler_file |-> sfile]
              seen == ScoredAgainst(before, after)
              risk_result == RiskResult(data, seen, detection, hour_now)
          IN  /\ risk_scores' = [risk_scores EXCEPT ![u] = RiskScoreCreate(@, risk_result)]
              /\ behaviors' = [behaviors EXCEPT ![u] = rows]
              /\ train_runs' = IF train_due \/ retrain_due THEN train_runs + 1
                                                           ELSE train_runs
              /\ model_file' = [model_file EXCEPT ![u] = mfile]
              /\ scaler_file' = [scaler_file EXCEPT ![u] = sfile]
              /\ ml_models' = [ml_models EXCEPT ![u] = status]
              /\ baselines' = [baselines EXCEPT ![u] = out.table]
              /\ response' = RiskReply(u, risk_result, seen.ml_trained)
              /\ UNCHANGED <<logged, req, call>>

\* POST /api/risk/calculate
CalculateRisk(u, data, detection, hour_now, fault) ==
    IF DOMAIN data = {}
    THEN /\ response' = Reply("calculate_risk", u, 400, FALSE, [op |-> "calculate_risk"])
         /\ UNCHANGED <<tables, req, call>>
    ELSE IF baselines[u] = <<>>
    THEN CalculateRiskNoBaseline(u, data)
    ELSE CalculateRiskScored(u, data, detection, hour_now, fault)

\* a recalculation whose query forgot WHERE user_id and read every user's rows
RecalculateBaselineOverAll(u) ==
    /\ \E out \in CalculateAndSave(baselines[u], behaviors[1] \o behaviors[2]) :
          /\ baselines' = [baselines EXCEPT ![u] = out.table]
          /\ response' = IF out.returned = <<>>
                         THEN Reply("recalculate_baseline", u, 400, FALSE,
                                    [op |-> "recalculate_baseline"])
                         ELSE Reply("recalculate_baseline", u, 200, TRUE,
                                    [total_behaviors |-> out.returned[1].total_sessions])
    /\ UNCHANGED <<behaviors, ml_models, risk_scores, model_file, scaler_file,
                   train_runs, logged, req, call>>

\* POST /api/behavior/baseline/recalculate
RecalculateBaseline(u) ==
    /\ \E out \in CalculateAndSave(baselines[u], behaviors[u]) :
          /\ baselines' = [baselines EXCEPT ![u] = out.table]
          /\ response' = IF out.returned = <<>>
                         THEN Reply("recalculate_baseline", u, 400, FALSE,
                                    [op |-> "recalculate_baseline"])
                         ELSE Reply("recalculate_baseline", u, 200, TRUE,
                                    [total_behaviors |-> out.returned[1].total_sessions])
    /\ UNCHANGED <<behaviors, ml_models, risk_scores, model_file, scaler_file,
                   train_runs, logged, req, call>>

\* the keys of the baseline row that get_baseline puts in its body
BaselineBodyKeys ==
    {"avg_typing_speed", "std_typing_speed", "common_location_lat",
     "common_location_lng", "common_session_hour", "total_sessions"}

\* GET /api/behavior/baseline: 404 without a baseline; a key the row lacks
\* raises KeyError, which the handler answers with 500
GetBaselineRoute(u) ==
    /\ response' =
          IF baselines[u] = <<>>
          THEN Reply("get_baseline", u, 404, FALSE, [op |-> "get_baseline"])
          ELSE IF BaselineBodyKeys \subseteq DOMAIN baselines[u][1]
          THEN Reply("get_baseline", u, 200, TRUE,
                     [total_behaviors |-> baselines[u][1].total_sessions])
          ELSE Reply("get_baseline", u, 500, FALSE, [op |-> "get_baseline"])
    /\ UNCHANGED <<tables, req, call>>

\* app.py 722-741 and 850-863: train on the 100 newest behaviours and record
\* the status when training succeeded; `op` names the route, and only the
\* train route reports the count when it refuses
\* a training route that recorded the status of a training that failed
TrainOnHistoryRecordingFailure(op, u, fault) ==
    LET samples == Len(GetUserBehaviors(behaviors[u], TrainLimit)) IN
    IF samples < MinTrainSamples
    THEN /\ response' = Reply(op, u, 400, FALSE,
                              [total_behaviors |->
                                  IF op = "train_ml_model" THEN samples ELSE 0])
         /\ UNCHANGED <<tables, req, call>>
    ELSE LET trained == Train(model_file[u], scaler_file[u], samples,
                              train_runs + 1, fault)
         IN  /\ train_runs' = train_runs + 1
             /\ model_file' = [model_file EXCEPT ![u] = trained.model_file]
             /\ scaler_file' = [scaler_file EXCEPT ![u] = trained.scaler_file]
             /\ ml_models' = [ml_models EXCEPT ![u] =
                                 UpdateTrainingStatus(@, trained.result)]
             /\ response' = Reply(op, u,
                                  IF op = "train_ml_model" /\ ~trained.result.success
                                      THEN 400 ELSE 200,
                                  trained.result.success,
                                  [total_behaviors |-> trained.result.training_samples])
             /\ UNCHANGED <<behaviors, baselines, risk_scores, logged, req, call>>

\* train_ml_model and retrain_ml_model: both train on the latest 100 samples
TrainOnHistory(op, u, fault) ==
    LET samples == Len(GetUserBehaviors(behaviors[u], TrainLimit)) IN
    IF samples < MinTrainSamples
    THEN /\ response' = Reply(op, u, 400, FALSE,
                              [total_behaviors |->
                                  IF op = "train_ml_model" THEN samples ELSE 0])
         /\ UNCHANGED <<tables, req, call>>
    ELSE LET trained == Train(model_file[u], scaler_file[u], samples,
                              train_runs + 1, fault)
         IN  /\ train_runs' = train_runs + 1
             /\ model_file' = [model_file EXCEPT ![u] = trained.model_file]
             /\ scaler_file' = [scaler_file EXCEPT ![u] = trained.scaler_file]
             /\ ml_models' = [ml_models EXCEPT ![u] =
                                 IF trained.result.success
                                 THEN UpdateTrainingStatus(@, trained.result) ELSE @]
             /\ response' = Reply(op, u,
                                  IF op = "train_ml_model" /\ ~trained.result.success
                                      THEN 400 ELSE 200,
                                  trained.result.success,
                                  [total_behaviors |-> trained.result.training_samples])
             /\ UNCHANGED <<behaviors, baselines, risk_scores, logged, req, call>>

\* POST /api/ml/train
TrainMlModel(u, fault) == TrainOnHistory("train_ml_model", u, fault)

\* POST /api/ml/retrain
RetrainMlModel(u, fault) == TrainOnHistory("retrain_ml_model", u, fault)

\* POST /api/ml/predict
MlPredict(u, data, detection) ==
    /\ response' =
          IF DOMAIN data = {} \/ ~IsTrained(ml_models[u])
          THEN Reply("ml_predict", u, 400, FALSE, [op |-> "ml_predict"])
          ELSE LET prediction == Predict(model_file[u], scaler_file[u], detection) IN
               Reply("ml_predict", u, IF prediction.success THEN 200 ELSE 400,
                     prediction.success,
                     [ml_anomaly |-> prediction.anomaly_score,
                      model |-> prediction.model, scaler |-> prediction.scaler])
    /\ UNCHANGED <<tables, req, call>>

-----------------------------------------------------------------------------
(* Specifications with one request at a time *)

\* the identity whose requests are followed
Profiled == {1}

Hours == {3, 14}

OddCount(rows) == Cardinality({i \in 1..Len(rows) : rows[i] # BehaviorRow(UsualSample)})

\* a further sample `data` of user u stays within the bounds
MayIngest(u, data) ==
    /\ Len(behaviors[u]) < MaxBehaviors
    /\ data \in {UsualSample, EmptyBody} \/ OddCount(behaviors[u]) < MaxOdd

\* the inputs a risk calculation of user u on `data` can depend on: the
\* detector's answer when a model is loaded, the clock when the request has no
\* session_hour, a storage fault when a training is due
DetectionsFor(u) ==
    IF IsTrained(ml_models[u]) /\ LoadModel(model_file[u], scaler_file[u])
    THEN Detections ELSE {CHOOSE d \in Detections : TRUE}
HoursFor(data) ==
    IF Has(data, "session_hour") THEN {CHOOSE h \in Hours : TRUE} ELSE Hours
FaultsFor(u) ==
    LET n == Len(behaviors[u]) + 1
        t == IsTrained(ml_models[u])
    IN  IF baselines[u] # <<>> /\ (AutoTrainDue(n, t) \/ AutoRetrainDue(n, t))
        THEN TrainFaults ELSE {"none"}

\* Spec: samples arrive through the two ingesting routes, in any order
Next ==
    \/ \E u \in Profiled, data \in Bodies :
          MayIngest(u, data) /\ LogBehavior(u, data)
    \/ \E u \in Profiled, data \in Bodies :
          \E detection \in DetectionsFor(u), hour_now \in HoursFor(data),
             fault \in FaultsFor(u) :
             MayIngest(u, data) /\ CalculateRisk(u, data, detection, hour_now, fault)

Spec == Init /\ [][Next]_vars

\* SpecSeq: a long run of one identity sending its usual sample: the log route
\* while the first five samples are collected, the risk route at any time
NextSeq ==
    \/ \E u \in Profiled :
          /\ Len(behaviors[u]) < MinBaselineSamples
          /\ LogBehavior(u, UsualSample)
    \/ \E u \in Profiled :
          \E detection \in DetectionsFor(u), hour_now \in HoursFor(UsualSample),
             fault \in FaultsFor(u) :
             /\ Len(behaviors[u]) < MaxSeqBehaviors
             /\ CalculateRisk(u, UsualSample, detection, hour_now, fault)

SpecSeq == Init /\ [][NextSeq]_vars

\* SpecApi: every route; the usual body, or an empty one for a prediction
NextApi ==
    \/ \E u \in Profiled, data \in {UsualSample} :
          MayIngest(u, data) /\ LogBehavior(u, data)
    \/ \E u \in Profiled, data \in {UsualSample} :
          \E detection \in DetectionsFor(u), hour_now \in HoursFor(data),
             fault \in FaultsFor(u) :
             MayIngest(u, data) /\ CalculateRisk(u, data, detection, hour_now, fault)
    \/ \E u \in Profiled : RecalculateBaseline(u)
    \/ \E u \in Profiled : GetBaselineRoute(u)
    \/ \E u \in Profiled, fault \in TrainFaults :
          train_runs < MaxTrainRuns /\ TrainMlModel(u, fault)
    \/ \E u \in Profiled, fault \in TrainFaults :
          train_runs < MaxTrainRuns /\ RetrainMlModel(u, fault)
    \/ \E u \in Profiled, data \in {UsualSample, EmptyBody} :
          \E detection \in DetectionsFor(u) : MlPredict(u, data, detection)

SpecApi == Init /\ [][NextApi]_vars

\* SpecPair: two identities use every route, each sending its own sample; the
\* first may collect enough samples to be trained
MaxFirstBehaviors == 10
MaxSecondBehaviors == 6
MaxPairTrainRuns == 1

PairLimit(u) == IF u = 1 THEN MaxFirstBehaviors ELSE MaxSecondBehaviors
SampleOf(u) == IF u = 1 THEN UsualSample ELSE OddSample

NextPair ==
    \/ \E u \in Users :
          /\ Len(behaviors[u]) < Min(PairLimit(u), MinBaselineSamples)
          /\ LogBehavior(u, SampleOf(u))
    \/ \E u \in Users :
          \E detection \in DetectionsFor(u), hour_now \in HoursFor(SampleOf(u)) :
             /\ Len(behaviors[u]) < PairLimit(u)
             /\ CalculateRisk(u, SampleOf(u), detection, hour_now, "none")
    \/ \E u \in Users : RecalculateBaseline(u)
    \/ \E u \in Users : train_runs < MaxPairTrainRuns /\ TrainMlModel(u, "none")
    \/ \E u \in Users : train_runs < MaxPairTrainRuns /\ RetrainMlModel(u, "none")
    \/ \E u \in Users :
          \E detection \in DetectionsFor(u) : MlPredict(u, SampleOf(u), detection)

SpecPair == Init /\ [][NextPair]_vars

\* SpecLong: one identity, either new or with a long history already logged,
\* sends its usual sample and calls the training and prediction routes
LongHistory == 95
MaxLongBehaviors == 101
MaxLongTrainRuns == 3

LongRows == [i \in 1..LongHistory |-> BehaviorRow(UsualSample)]

\* the state after construction, or the state after identity 1 has sent
\* LongHistory usual samples to the log route: the rows, the baseline of the
\* latest 50 that the last of these requests saved, and its reply
InitLong ==
    \/ Init
    \/ /\ behaviors = [u \in Users |-> IF u = 1 THEN LongRows ELSE <<>>]
       /\ \E out \in CalculateAndSave(<<>>, LongRows) :
             baselines = [u \in Users |-> IF u = 1 THEN out.table ELSE <<>>]
       /\ ml_models = [u \in Users |-> <<>>]
       /\ risk_scores = [u \in Users |-> [n |-> 0, latest |-> NoRisk]]
       /\ model_file = [u \in Users |-> <<>>]
       /\ scaler_file = [u \in Users |-> <<>>]
       /\ train_runs = 0
       /\ logged = [u \in Users |-> u = 1]
       /\ response = Reply("log_behavior", 1, 201, TRUE,
                           [total_behaviors |-> LongHistory, baseline_updated |-> TRUE])
       /\ req = [p \in Procs |-> Idle]
       /\ call = NoCall

\* a further sample of u stays within the bounds of the short or the long run
MayIngestLong(u) ==
    \/ Len(behaviors[u]) < MaxBehaviors
    \/ Len(behaviors[u]) >= LongHistory /\ Len(behaviors[u]) < MaxLongBehaviors

NextLong ==
    \/ \E u \in Profiled :
          /\ Len(behaviors[u]) < MinBaselineSamples
          /\ LogBehavior(u, UsualSample)
    \/ \E u \in Profiled :
          \E detection \in DetectionsFor(u), hour_now \in HoursFor(UsualSample),
             fault \in FaultsFor(u) :
             /\ MayIngestLong(u)
             /\ CalculateRisk(u, UsualSample, detection, hour_now, fault)
    \/ \E u \in Profiled, fault \in TrainFaults :
          train_runs < MaxLongTrainRuns /\ TrainMlModel(u, fault)
    \/ \E u \in Profiled, fault \in TrainFaults :
          train_runs < MaxLongTrainRuns /\ RetrainMlModel(u, fault)
    \/ \E u \in Profiled :
          \E detection \in DetectionsFor(u) : MlPredict(u, UsualSample, detection)

SpecLong == InitLong /\ [][NextLong]_vars

\* SpecDevice: one identity, either new or with a long history already logged,
\* logs its usual sample until it has a baseline and asks for risk calculations
\* from its usual device, from another device, or from a device whose operating
\* system the request does not name
MaxDeviceBehaviors == 8
MaxDeviceLongBehaviors == 98

NoOsSample ==
    [typing_speed |-> 60, session_hour |-> 14, location_lat |-> 10,
     location_lng |-> 20, device_model |-> "Nokia"]

DeviceSamples == {UsualSample, OddSample, NoOsSample}

NextDevice ==
    \/ \E u \in Profiled :
          /\ Len(behaviors[u]) < MinBaselineSamples
          /\ LogBehavior(u, UsualSample)
    \/ \E u \in Profiled, data \in DeviceSamples :
          \E detection \in DetectionsFor(u), hour_now \in HoursFor(data),
             fault \in FaultsFor(u) :
             /\ \/ Len(behaviors[u]) < MaxDeviceBehaviors
                \/ /\ Len(behaviors[u]) >= LongHistory
                   /\ Len(behaviors[u]) < MaxDeviceLongBehaviors
             /\ CalculateRisk(u, data, detection, hour_now, fault)

SpecDevice == InitLong /\ [][NextDevice]_vars

-----------------------------------------------------------------------------
(* app.py calculate_risk, one database or file access per step, for requests
   that overlap: Flask's server answers each request on a thread of its own
   and the handlers take no lock *)

\* a request just read from the socket: nothing looked up yet
Received(u, data) ==
    [pc |-> "received", user |-> u, data |-> data, baseline |-> <<>>,
     recent_behaviors |-> <<>>, ml_trained |-> FALSE, model |-> <<>>,
     scaler |-> <<>>, behavior_count |-> 0, samples |-> 0, run |-> 0,
     window |-> <<>>, effects |-> <<>>]

\* the detector's answer and the clock are fixed while requests overlap
TheDetection == CHOOSE d \in Detections : ~d.outlier
TheHour == CHOOSE h \in Hours : TRUE

\* the risk result of request r from what it has read (app.py 502-521)
RiskOf(r) ==
    RiskResult(r.data,
               [baseline |-> r.baseline[1], recent_behaviors |-> r.recent_behaviors,
                ml_trained |-> r.ml_trained, model_file |-> r.model,
                scaler_file |-> r.scaler],
               TheDetection, TheHour)

\* a handler that recomputed the baseline before it trained
NextStageBaselineFirst(stage, behavior_count, ml_trained) ==
    IF stage = "count" /\ BaselineUpdateDue(behavior_count)
    THEN "baseline"
    ELSE IF /\ stage \in {"count", "baseline"}
            /\ \/ AutoTrainDue(behavior_count, ml_trained)
               \/ AutoRetrainDue(behavior_count, ml_trained)
    THEN "train"
    ELSE "respond"

\* app.py 532-550: what calculate_risk does after `stage`: the training
\* (533-544) comes before the baseline update (547-548)
NextStage(stage, behavior_count, ml_trained) ==
    IF /\ stage = "count"
       /\ \/ AutoTrainDue(behavior_count, ml_trained)
          \/ AutoRetrainDue(behavior_count, ml_trained)
    THEN "train"
    ELSE IF stage \in {"count", "train"} /\ BaselineUpdateDue(behavior_count)
    THEN "baseline"
    ELSE "respond"

At(p, pc) == req[p].pc = pc
Goto(p, r) == req' = [req EXCEPT ![p] = r]

\* a request is taken by the first free thread
Free(p) == At(p, "idle") /\ \A q \in Procs : q < p => ~At(q, "idle")

\* samples stored or about to be stored
Pending == Cardinality({p \in Procs : req[p].pc \in
               {"received", "log_unscored", "get_recent", "is_trained", "load_model",
                "load_scaler", "record", "persist"}})

\* app.py 473-474
ReceiveRisk(p, u, data) ==
    /\ Free(p)
    /\ Len(behaviors[u]) + Pending < MaxConcBehaviors
    /\ Goto(p, Received(u, data))
    /\ UNCHANGED <<tables, response, call>>

\* app.py 483-485: BehaviorBaseline.get_by_user_id
GetBaseline(p) ==
    /\ At(p, "received")
    /\ LET r == req[p] IN
       Goto(p, [r EXCEPT !.baseline = baselines[r.user],
                         !.pc = IF baselines[r.user] = <<>> THEN "log_unscored"
                                                           ELSE "get_recent"])
    /\ UNCHANGED <<tables, response, call>>

\* app.py 487-494
LogUnscored(p) ==
    /\ At(p, "log_unscored")
    /\ LET r == req[p] IN
       /\ behaviors' = [behaviors EXCEPT ![r.user] = Append(@, BehaviorRow(r.data))]
       /\ response' = UnknownRisk(r.user)
    /\ Goto(p, Idle)
    /\ UNCHANGED <<baselines, ml_models, risk_scores, model_file, scaler_file,
                   train_runs, logged, call>>

\* app.py 497
GetRecent(p) ==
    /\ At(p, "get_recent")
    /\ LET r == req[p] IN
       Goto(p, [r EXCEPT !.recent_behaviors = GetUserBehaviors(behaviors[r.user], RecentLimit),
                         !.pc = "is_trained"])
    /\ UNCHANGED <<tables, response, call>>

\* app.py 500-502
CheckTrained(p) ==
    /\ At(p, "is_trained")
    /\ LET r == req[p]
           ml_trained == IsTrained(ml_models[r.user])
       IN  Goto(p, [r EXCEPT !.ml_trained = ml_trained,
                             !.pc = IF ml_trained THEN "load_model" ELSE "record"])
    /\ UNCHANGED <<tables, response, call>>

\* ml_engine.py 188-189: both files are looked for, the detector is loaded
LoadModelFile(p) ==
    /\ At(p, "load_model")
    /\ LET r == req[p] IN
       IF LoadModel(model_file[r.user], scaler_file[r.user])
       THEN Goto(p, [r EXCEPT !.model = model_file[r.user], !.pc = "load_scaler"])
       ELSE Goto(p, [r EXCEPT !.pc = "record"])
    /\ UNCHANGED <<tables, response, call>>

\* ml_engine.py 190
LoadScalerFile(p) ==
    /\ At(p, "load_scaler")
    /\ LET r == req[p] IN
       Goto(p, [r EXCEPT !.scaler = scaler_file[r.user], !.pc = "record"])
    /\ UNCHANGED <<tables, response, call>>

\* app.py 504-524: the risk is computed and RiskScore.create stores it
RecordRisk(p) ==
    /\ At(p, "record")
    /\ LET r == req[p] IN
       /\ risk_scores' = [risk_scores EXCEPT ![r.user] = RiskScoreCreate(@, RiskOf(r))]
       /\ Goto(p, [r EXCEPT !.effects = Append(@, "risk_score"), !.pc = "persist"])
    /\ UNCHANGED <<behaviors, baselines, ml_models, model_file, scaler_file,
                   train_runs, logged, response, call>>

\* app.py 527
PersistBehavior(p) ==
    /\ At(p, "persist")
    /\ LET r == req[p] IN
       /\ behaviors' = [behaviors EXCEPT ![r.user] = Append(@, BehaviorRow(r.data))]
       /\ Goto(p, [r EXCEPT !.effects = Append(@, "behavior"), !.pc = "count"])
    /\ UNCHANGED <<baselines, ml_models, risk_scores, model_file, scaler_file,
                   train_runs, logged, response, call>>

\* app.py 530
CountBehaviors(p) ==
    /\ At(p, "count")
    /\ LET r == req[p]
           behavior_count == CountUserBehaviors(behaviors[r.user])
       IN  Goto(p, [r EXCEPT !.behavior_count = behavior_count,
                             !.pc = NextStage("count", behavior_count, r.ml_trained)])
    /\ UNCHANGED <<tables, response, call>>

\* app.py 534-535 and 541-542, ml_engine.py 125-153: the samples are chosen
\* and the detector fitted
FitModel(p) ==
    /\ At(p, "train")
    /\ LET r == req[p]
           samples == IF AutoTrainDue(r.behavior_count, r.ml_trained)
                      THEN Len(r.recent_behaviors) + 1
                      ELSE Len(GetUserBehaviors(behaviors[r.user], TrainLimit))
       IN  /\ train_runs' = train_runs + 1
           /\ Goto(p, [r EXCEPT !.samples = samples, !.run = train_runs + 1,
                                !.effects = Append(@, "train"),
                                !.pc = IF samples < MinTrainSamples
                                       THEN NextStage("train", r.behavior_count, r.ml_trained)
                                       ELSE "dump_model"])
    /\ UNCHANGED <<behaviors, baselines, ml_models, risk_scores, model_file,
                   scaler_file, logged, response, call>>

\* ml_engine.py 156
DumpModel(p) ==
    /\ At(p, "dump_model")
    /\ LET r == req[p] IN
       /\ model_file' = [model_file EXCEPT ![r.user] = <<Artifact(r.run, r.samples)>>]
       /\ Goto(p, [r EXCEPT !.pc = "dump_scaler"])
    /\ UNCHANGED <<behaviors, baselines, ml_models, risk_scores, scaler_file,
                   train_runs, logged, response, call>>

\* ml_engine.py 157
DumpScaler(p) ==
    /\ At(p, "dump_scaler")
    /\ LET r == req[p] IN
       /\ scaler_file' = [scaler_file EXCEPT ![r.user] = <<Artifact(r.run, r.samples)>>]
       /\ Goto(p, [r EXCEPT !.pc = "update_status"])
    /\ UNCHANGED <<behaviors, baselines, ml_models, risk_scores, model_file,
                   train_runs, logged, response, call>>

\* app.py 536-537 and 543-544
UpdateStatus(p) ==
    /\ At(p, "update_status")
    /\ LET r == req[p] IN
       /\ ml_models' = [ml_models EXCEPT ![r.user] =
                           UpdateTrainingStatus(@, [training_samples |-> r.samples])]
       /\ Goto(p, [r EXCEPT !.pc = NextStage("train", r.behavior_count, r.ml_trained)])
    /\ UNCHANGED <<behaviors, baselines, risk_scores, model_file, scaler_file,
                   train_runs, logged, response, call>>

\* models.py 258: calculate_and_save reads the behaviours
ReadWindow(p) ==
    /\ At(p, "baseline")
    /\ LET r == req[p] IN
       Goto(p, [r EXCEPT !.window = GetRecentForBaseline(behaviors[r.user]),
                         !.pc = "save_baseline"])
    /\ UNCHANGED <<tables, response, call>>

\* models.py 260-310: and stores what it computed from them
SaveWindow(p) ==
    /\ At(p, "save_baseline")
    /\ LET r == req[p] IN
       /\ \E out \in CalculateAndSave(baselines[r.user], r.window) :
             baselines' = [baselines EXCEPT ![r.user] = out.table]
       /\ Goto(p, [r EXCEPT !.effects = Append(@, "baseline"), !.window = <<>>,
                            !.pc = NextStage("baseline", r.behavior_count, r.ml_trained)])
    /\ UNCHANGED <<behaviors, ml_models, risk_scores, model_file, scaler_file,
                   train_runs, logged, response, call>>

\* app.py 550-563
Respond(p) ==
    /\ At(p, "respond")
    /\ LET r == req[p] IN
       response' = RiskReply(r.user, RiskOf(r), r.ml_trained)
    /\ Goto(p, Idle)
    /\ UNCHANGED <<tables, call>>

\* SpecConc: the identity's first five samples are logged, then its risk
\* calculations overlap
NextConc ==
    \/ \E u \in Profiled :
          /\ Len(behaviors[u]) + Pending < MinBaselineSamples
          /\ LogBehavior(u, UsualSample)
    \/ \E p \in Procs, u \in Profiled : ReceiveRisk(p, u, UsualSample)
    \/ \E p \in Procs : GetBaseline(p)
    \/ \E p \in Procs : LogUnscored(p)
    \/ \E p \in Procs : GetRecent(p)
    \/ \E p \in Procs : CheckTrained(p)
    \/ \E p \in Procs : LoadModelFile(p)
    \/ \E p \in Procs : LoadScalerFile(p)
    \/ \E p \in Procs : RecordRisk(p)
    \/ \E p \in Procs : PersistBehavior(p)
    \/ \E p \in Procs : CountBehaviors(p)
    \/ \E p \in Procs : FitModel(p)
    \/ \E p \in Procs : DumpModel(p)
    \/ \E p \in Procs : DumpScaler(p)
    \/ \E p \in Procs : UpdateStatus(p)
    \/ \E p \in Procs : ReadWindow(p)
    \/ \E p \in Procs : SaveWindow(p)
    \/ \E p \in Procs : Respond(p)

SpecConc == Init /\ [][NextConc]_vars

-----------------------------------------------------------------------------
(* Direct calls of RiskCalculator, of the scoring part of calculate_risk and
   of BehaviorBaseline.calculate_and_save: the arguments are drawn first, the
   step applies the function *)

\* a stored sample of the usual place and hour
Typed(typing_speed, device_model, device_os) ==
    BehaviorRow([UsualSample EXCEPT !.typing_speed = typing_speed,
                                    !.device_model = device_model,
                                    !.device_os = device_os])

Repeated(row, n) == [i \in 1..n |-> row]

\* stored histories: the usual one, one of slow typing with a little spread,
\* one of typing speeds sent as -50, one sent as 0, and two of mixed devices
UsualHistory == Repeated(BehaviorRow(UsualSample), 5)
SlowHistory ==
    <<Typed(48, "Pixel", "Android")>> \o Repeated(Typed(49, "Pixel", "Android"), 4)
NegativeHistory == Repeated(Typed(-50, "Pixel", "Android"), 5)
ZeroHistory == Repeated(Typed(0, "Pixel", "Android"), 5)
MixedHistory ==
    <<Typed(60, "Pixel", "Android"), Typed(60, "Pixel", "Lineage"),
      Typed(60, "iPhone", "iOS"), Typed(60, "iPad", "iOS"), Typed(60, "Nokia", "Symbian")>>
TiedHistory ==
    <<Typed(60, "Pixel", "Android"), Typed(60, "iPhone", "iOS"),
      Typed(60, "Pixel", "Android"), Typed(60, "iPhone", "iOS"),
      Typed(60, "Nokia", "Symbian")>>

ScoredHistories == {UsualHistory, SlowHistory, NegativeHistory, ZeroHistory}

\* request bodies scored directly
FastSample == [OddSample EXCEPT !.typing_speed = 300]
EdgeSample == [OddSample EXCEPT !.typing_speed = 103]
\* the fast sample far from the usual place, at night
FarSample == [FastSample EXCEPT !.location_lat = 40, !.session_hour = 2]
ScoredSamples == {UsualSample, OddSample, BareSample, FastSample, EdgeSample, FarSample}

\* the detector and scaler files an engine may find: none, a trained pair, a
\* pair whose detector does not load, a detector without its scaler, and a
\* pair left by a build with other features
FilePairs ==
    {<<<<>>, <<>>>>,
     <<<<Artifact(1, 10)>>, <<Artifact(1, 10)>>>>,
     <<<<CorruptArtifact>>, <<Artifact(1, 10)>>>>,
     <<<<Artifact(1, 10)>>, <<>>>>,
     <<<<ForeignArtifact>>, <<ForeignArtifact>>>>}

\* the scoring of app.py 497-521 on a request body and what the handler read
RiskCalls ==
    {[fn |-> "calculate_risk", done |-> FALSE, history |-> history, data |-> data,
      baseline |-> baseline, recent_behaviors |-> recent_behaviors,
      ml_trained |-> ml_trained, model_file |-> files[1], scaler_file |-> files[2],
      detection |-> detection, hour_now |-> hour_now, result |-> NoRisk,
      reply |-> NoResponse] :
        history \in ScoredHistories, data \in ScoredSamples,
        baseline \in UNION {BaselineRows(h) : h \in ScoredHistories},
        recent_behaviors \in {<<>>} \cup ScoredHistories,
        ml_trained \in BOOLEAN, files \in FilePairs,
        detection \in Detections \cup {RaisedDetection}, hour_now \in Hours}

\* the calls a handler can make: the baseline is the one of the history and
\* the recent behaviours are that history, or none
HandlerRiskCalls ==
    {c \in RiskCalls : /\ c.baseline \in BaselineRows(c.history)
                       /\ c.recent_behaviors \in {<<>>, c.history}}

\* coordinates in 1/100 degree, None as <<>>; both points on the meridian of 20
Latitudes == {<<>>, <<0>>, <<1000>>, <<1040>>, <<1100>>, <<1300>>, <<1500>>, <<4000>>}
LocationCalls ==
    {[fn |-> "calculate_location_deviation", done |-> FALSE,
      current_lat |-> current_lat, current_lng |-> current_lng,
      baseline_lat |-> baseline_lat, baseline_lng |-> baseline_lng, result |-> 0] :
        current_lat \in Latitudes, baseline_lat \in Latitudes,
        current_lng \in {<<>>, <<2000>>}, baseline_lng \in {<<>>, <<2000>>}}

PredictCalls ==
    {[fn |-> "predict", done |-> FALSE, model_file |-> files[1],
      scaler_file |-> files[2], detection |-> detection,
      result |-> [success |-> FALSE]] :
        files \in FilePairs, detection \in Detections \cup {RaisedDetection}}

BaselineCalls ==
    {[fn |-> "calculate_and_save", done |-> FALSE, rows |-> rows, result |-> <<>>] :
        rows \in ScoredHistories \cup {MixedHistory, TiedHistory}
                   \cup {SubSeq(UsualHistory, 1, n) : n \in 0..4}}

InitScore ==
    /\ behaviors = [u \in Users |-> <<>>]
    /\ baselines = [u \in Users |-> <<>>]
    /\ ml_models = [u \in Users |-> <<>>]
    /\ risk_scores = [u \in Users |-> [n |-> 0, latest |-> NoRisk]]
    /\ model_file = [u \in Users |-> <<>>]
    /\ scaler_file = [u \in Users |-> <<>>]
    /\ train_runs = 0
    /\ logged = [u \in Users |-> FALSE]
    /\ response = NoResponse
    /\ req = [p \in Procs |-> Idle]
    /\ \/ call \in HandlerRiskCalls
       \/ call \in LocationCalls
       \/ call \in BaselineCalls
       \/ call \in PredictCalls

PendingCall(fn) == call.fn = fn /\ ~call.done

\* app.py 502-521 and the body returned at 550-563
ApplyRiskResult ==
    /\ PendingCall("calculate_risk")
    /\ LET risk_result == RiskResult(call.data,
                                [baseline |-> call.baseline,
                                 recent_behaviors |-> call.recent_behaviors,
                                 ml_trained |-> call.ml_trained,
                                 model_file |-> call.model_file,
                                 scaler_file |-> call.scaler_file],
                                call.detection, call.hour_now)
       IN  call' = [call EXCEPT !.done = TRUE,
                                !.result = risk_result,
                                !.reply = RiskReply(1, risk_result, call.ml_trained)]
    /\ UNCHANGED <<tables, response, req>>

\* RiskCalculator.calculate_location_deviation
ApplyLocationDeviation ==
    /\ PendingCall("calculate_location_deviation")
    /\ call' = [call EXCEPT !.done = TRUE,
                            !.result = CalculateLocationDeviation(
                                           call.current_lat, call.current_lng,
                                           call.baseline_lat, call.baseline_lng)]
    /\ UNCHANGED <<tables, response, req>>

\* BehaviorBaseline.calculate_and_save on an empty table: what it returns
ApplyCalculateAndSave ==
    /\ PendingCall("calculate_and_save")
    /\ \E out \in CalculateAndSave(<<>>, call.rows) :
          call' = [call EXCEPT !.done = TRUE, !.result = out.returned]
    /\ UNCHANGED <<tables, response, req>>

\* MLEngine.predict
ApplyPredict ==
    /\ PendingCall("predict")
    /\ call' = [call EXCEPT !.done = TRUE,
                            !.result = Predict(call.model_file, call.scaler_file,
                                               call.detection)]
    /\ UNCHANGED <<tables, response, req>>

NextScore ==
    \/ ApplyPredict
    \/ ApplyRiskResult
    \/ ApplyLocationDeviation
    \/ ApplyCalculateAndSave

SpecScore == InitScore /\ [][NextScore]_vars

-----------------------------------------------------------------------------
(* Properties of the ingesting routes *)

\* this step is a request of route `op` that stored a sample of user u
IngestedBy(u, op) ==
    /\ behaviors'[u] # behaviors[u]
    /\ response'.op = op
    /\ response'.user = u

\* this step answers a request of user u on route `op`
Answered(u, op) == response'.op = op /\ response'.user = u

\* this step is a risk calculation of user u that found a baseline
ScoredStep(u) == IngestedBy(u, "calculate_risk") /\ baselines[u] # <<>>

NewestRow(rows) == rows[Len(rows)]

\* what a risk calculation of user u reads before it writes anything
StateBefore(u) ==
    [baseline |-> baselines[u][1],
     recent_behaviors |-> GetUserBehaviors(behaviors[u], RecentLimit),
     ml_trained |-> IsTrained(ml_models[u]),
     model_file |-> model_file[u],
     scaler_file |-> scaler_file[u]]

\* C1: the decision a risk calculation returns and records is the one computed
\* from the baseline, the recent samples, the trained flag and the model files
\* as they were before the call, also when the call itself recomputes the
\* baseline or trains the model
C1_ScoredAgainstStateBeforeCall ==
    [][\A u \in Users :
          ScoredStep(u) =>
            \E data \in Samples, detection \in Detections, hour_now \in Hours :
               LET risk_result == RiskResult(data, StateBefore(u), detection, hour_now) IN
               /\ BehaviorRow(data) = NewestRow(behaviors'[u])
               /\ response' = RiskReply(u, risk_result, IsTrained(ml_models[u]))
               /\ risk_scores'[u] = RiskScoreCreate(risk_scores[u], risk_result)]_vars

\* the tenth sample was unusual (typing 90 against an average of 60), its call
\* trained the model and recomputed the baseline, and it was scored 15.00 on
\* typing with the model off
C1_Witness ==
    /\ Len(behaviors[1]) = 10
    /\ behaviors[1][10].typing_speed = 90
    /\ response.op = "calculate_risk" /\ response.success
    /\ IsTrained(ml_models[1]) /\ ~response.ml_enabled
    /\ baselines[1][1].total_sessions = 10
    /\ baselines[1][1].avg_typing_speed = 6300
    /\ response.typing = 1500

\* C5 as claimed: ingesting a sample changes the stored baseline only when the
\* count after the insert is 5 or a multiple of 10
C5_RecomputeOnlyAtFiveOrTens ==
    [][\A u \in Users :
          (behaviors'[u] # behaviors[u] /\ baselines'[u] # baselines[u])
             => \/ Len(behaviors'[u]) = 5
                \/ Len(behaviors'[u]) % 10 = 0]_vars

\* C5 amended: the risk route recomputes the baseline exactly when one existed
\* and the count after the insert is a multiple of 10; the log route
\* recomputes it at every count of 5 or more; otherwise it is left as it was
C5_RecomputeSchedule ==
    [][\A u \in Users :
          LET n == Len(behaviors'[u])
              recomputed == \E row \in BaselineRows(behaviors'[u]) :
                                baselines'[u] = <<row>>
          IN  /\ IngestedBy(u, "calculate_risk") =>
                    IF baselines[u] # <<>> /\ n % 10 = 0
                    THEN recomputed ELSE baselines'[u] = baselines[u]
              /\ IngestedBy(u, "log_behavior") =>
                    IF n >= 5 THEN recomputed ELSE baselines'[u] = baselines[u]]_vars

\* the sixth sample came through the log route and the baseline now counts six
C5_Witness ==
    /\ response.op = "log_behavior" /\ response.total_behaviors = 6
    /\ response.baseline_updated
    /\ baselines[1] # <<>> /\ baselines[1][1].total_sessions = 6

\* C10: a risk calculation for a user without a baseline answers risk_score 0,
\* risk_level UNKNOWN, stores the sample once, and writes no risk_scores row
\* and no baseline
C10_NoBaselineSentinel ==
    [][\A u \in Users :
          (Answered(u, "calculate_risk") /\ response'.status # 400 /\ baselines[u] = <<>>) =>
             /\ response' = UnknownRisk(u)
             /\ response'.risk_score = 0 /\ response'.risk_level = "UNKNOWN"
             /\ response'.status = 200
             /\ Len(behaviors'[u]) = Len(behaviors[u]) + 1
             /\ SubSeq(behaviors'[u], 1, Len(behaviors[u])) = behaviors[u]
             /\ risk_scores'[u] = risk_scores[u]
             /\ baselines'[u] = <<>>]_vars

\* three samples, all through the risk route, all answered UNKNOWN
C10_Witness ==
    /\ response = UnknownRisk(1)
    /\ Len(behaviors[1]) = 3 /\ ~logged[1]
    /\ risk_scores[1].n = 0 /\ baselines[1] = <<>>

-----------------------------------------------------------------------------
(* Properties of the long sequential run *)

C4_BaselineFromFifthEvaluate ==
    [][\A u \in Users :
          (IngestedBy(u, "calculate_risk") /\ ~logged[u]) =>
             LET n == Len(behaviors'[u]) IN
             /\ n = 5 => baselines'[u] # <<>>
             /\ n >= 6 => response'.risk_level # "UNKNOWN"]_vars

-----------------------------------------------------------------------------
(* Properties of one risk calculation's steps and of overlapping requests *)

InFlight(p) == ~At(p, "idle")

Position(order, e) == CHOOSE i \in 1..Len(order) : order[i] = e

\* the writes in `effects` happened in the order of `order`, none twice
InOrder(effects, order) ==
    /\ \A i \in 1..Len(effects) : \E j \in 1..Len(order) : order[j] = effects[i]
    /\ \A i, j \in 1..Len(effects) :
          i < j => Position(order, effects[i]) < Position(order, effects[j])

Wrote(r, e) == \E i \in 1..Len(r.effects) : r.effects[i] = e

\* a scored risk calculation about to answer made the writes its count asked for
WroteWhatWasDue(r) ==
    /\ Wrote(r, "risk_score") /\ Wrote(r, "behavior")
    /\ Wrote(r, "train") <=> \/ AutoTrainDue(r.behavior_count, r.ml_trained)
                             \/ AutoRetrainDue(r.behavior_count, r.ml_trained)
    /\ Wrote(r, "baseline") <=> BaselineUpdateDue(r.behavior_count)

C7_OneRequestInSequence ==
    \A p, q \in Procs :
       (p # q /\ InFlight(p) /\ InFlight(q)) => req[p].user # req[q].user

\* the identity has five logged samples and every later one came through a
\* risk calculation that scored it
AllScoredSinceFifth(u) ==
    /\ logged[u]
    /\ risk_scores[u].n = Len(behaviors[u]) - MinBaselineSamples

\* C8 as claimed: once the requests that took the count through 10 have
\* answered, a first training has been run, and only one
C8_FirstTrainingOnce ==
    \A u \in Users :
       (/\ \A p \in Procs : ~InFlight(p)
        /\ AllScoredSinceFifth(u)
        /\ Len(behaviors[u]) \in 10..19)
          => train_runs = 1

\* C9 as claimed: a prediction runs on a detector and a scaler written by the
\* same training run
C9_ArtifactsFromOneRun ==
    (response.op = "ml_predict" /\ response.success)
       => response.model = response.scaler

-----------------------------------------------------------------------------
(* Properties of the scorer and of the baseline computation, on direct calls *)

Scored == call.fn = "calculate_risk" /\ call.done

\* the statistical result of the scored call
Statistical == CalculateRiskBase(call.data, call.baseline, call.recent_behaviors,
                                 call.hour_now)

\* the model is recorded trained, both files load and the prediction succeeds
AnomalyAvailable ==
    /\ call.ml_trained
    /\ call.model_file # <<>> /\ call.scaler_file # <<>>
    /\ call.model_file[1] # CorruptArtifact /\ call.scaler_file[1] # CorruptArtifact
    /\ ~call.detection.raised

\* the tier of a score s given in units of 1/u
TierOf(s, u) ==
    IF s < 30 * u THEN [risk_level |-> "LOW", action_taken |-> "ALLOW"]
    ELSE IF s < 60 * u THEN [risk_level |-> "MEDIUM", action_taken |-> "WARN"]
    ELSE [risk_level |-> "HIGH", action_taken |-> "BLOCK"]

TierGiven(r) == [risk_level |-> r.risk_level, action_taken |-> r.action_taken]

\* C11: the final score is the statistical score (as reported, to two decimals)
\* when no anomaly score is available, and statistical * 0.70 + anomaly * 0.30
\* to two decimals when one is; statistical 50 with anomaly 90 gives 62,
\* HIGH/BLOCK; the anomaly score is used exactly when the model is recorded
\* trained and the prediction succeeds
C11_BlendSeventyThirty ==
    Scored =>
        LET result == call.result
            blend  == Statistical.risk_score * 70 + result.ml_anomaly_score * 30
        IN  /\ ~AnomalyAvailable =>
                   /\ result.risk_score = Statistical.risk_score
                   /\ result.ml_anomaly_score = 0
                   /\ TierGiven(result) = TierGiven(Statistical)
            /\ AnomalyAvailable =>
                   /\ result.ml_anomaly_score =
                          Round2(NormalizeAnomalyScore(call.detection.raw_score))
                   /\ Abs(result.risk_score * 100 - blend) <= 50
                   /\ TierGiven(result) = TierOf(blend, 10000)
            /\ (AnomalyAvailable /\ Statistical.risk_score = 5000
                   /\ result.ml_anomaly_score = 9000) =>
                   /\ result.risk_score = 6200
                   /\ TierGiven(result) = [risk_level |-> "HIGH", action_taken |-> "BLOCK"]

\* a statistical 50 (MEDIUM) blended with an anomaly score of 90 was answered
\* 62, HIGH/BLOCK; the same sample without a trained model is also scored
C11_Witness ==
    /\ Scored /\ AnomalyAvailable
    /\ Statistical.risk_score = 5000 /\ Statistical.risk_level = "MEDIUM"
    /\ call.result.ml_anomaly_score = 9000
    /\ call.result.risk_score = 6200 /\ call.result.risk_level = "HIGH"

\* C12: a score below 30 is LOW/ALLOW, from 30 and below 60 MEDIUM/WARN, from
\* 60 on HIGH/BLOCK; the recorded risk_level and action are the tier of the
\* recorded risk_score, with or without the anomaly score blended in
C12_TierOfRecordedScore ==
    Scored => TierGiven(call.result) = TierOf(call.result.risk_score, 100)

\* C13: each of the four sub-scores (typing, location, time, device) lies in
\* [0, 100] for every input, a negative baseline average typing speed with no
\* standard deviation included
C13_SubScoresInRange ==
    Scored =>
        \A d \in {call.result.typing_deviation, call.result.location_deviation,
                  call.result.time_deviation, call.result.device_deviation} :
            d \in 0..10000

\* the sample names its device and operating system
HasPair == Has(call.data, "device_model") /\ Has(call.data, "device_os")

\* the pair of the sample is the pair of some recent sample
PairSeen ==
    \E i \in 1..Len(call.recent_behaviors) :
        /\ call.recent_behaviors[i].device_model = call.data.device_model
        /\ call.recent_behaviors[i].device_os = call.data.device_os

Located == call.fn = "calculate_location_deviation" /\ call.done

\* the distance in 1/100 km of two points of one meridian, from their latitudes
\* in 1/100 degree
MeridianArc(lat1, lat2) == 111 * Abs(lat1 - lat2)

\* C15: the location deviation is non-decreasing in the distance d and within
\* [0, 100], with 0 at d = 0, 25 at 50 km, 50 at 200 km, 100 at 500 km, and it
\* is 0 only because d is below 10 km or because a coordinate is missing
C15_ZeroOnlyNearOrMissing ==
    /\ Located => call.result \in 0..Cap100
    /\ (/\ Located
        /\ call.current_lat # <<>> /\ call.current_lng # <<>>
        /\ call.baseline_lat # <<>> /\ call.baseline_lng # <<>>
        /\ call.current_lng = call.baseline_lng
        /\ call.result = 0)
           => MeridianArc(call.current_lat[1], call.baseline_lat[1]) < 1000

-----------------------------------------------------------------------------
(* Properties of the stored baseline and of training, on the routes *)

\* this step is a call of route `op` by user u that changed something
Called(u, op) == Answered(u, op) /\ vars' # vars

\* C16: the baseline computation on 0 to 4 samples reports that there is not
\* enough data and creates or changes no baseline; on 5 samples it produces
\* one; every stored baseline has total_sessions of at least 5 (and at most 100)
C16_BaselineFromFiveSamples ==
    [][\A u \in Users :
        /\ (Called(u, "recalculate_baseline") /\ Len(behaviors[u]) < 5) =>
               /\ response'.status = 400 /\ ~response'.success
               /\ tables' = tables
        /\ (Called(u, "recalculate_baseline") /\ Len(behaviors[u]) >= 5) =>
               /\ response'.status = 200 /\ response'.success
               /\ baselines'[u] # <<>>
               /\ baselines'[u][1].total_sessions = Min(Len(behaviors[u]), 50)
        /\ baselines'[u] # baselines[u] => Len(behaviors'[u]) >= 5
        /\ baselines'[u] # <<>> => baselines'[u][1].total_sessions \in 5..100
      ]_vars

\* a recalculation on exactly five samples, none of which came through the log
\* route, stored the first baseline, of five sessions
C16_Witness ==
    \E u \in Users :
        /\ response.op = "recalculate_baseline" /\ response.status = 200
        /\ Len(behaviors[u]) = 5
        /\ baselines[u] # <<>> /\ baselines[u][1].total_sessions = 5
        /\ ~logged[u]

\* C17: an identity has at most one baseline, and each recomputation replaces
\* the previous one in full: the stored row is a row computed from the one
\* window of most recent samples of that recomputation, nothing carried over
C17_OneBaselineReplacedInFull ==
    [][\A u \in Users :
        /\ Len(baselines'[u]) <= 1
        /\ baselines'[u] # baselines[u] =>
               /\ Len(baselines'[u]) = 1
               /\ baselines'[u][1] \in BaselineRows(behaviors'[u])
               /\ baselines'[u][1].total_sessions =
                      Min(Len(behaviors'[u]), BaselineWindow)
      ]_vars

\* the baseline of five usual samples (average typing 60) was replaced when a
\* sixth, typed at 90, was logged: six sessions, average 65
C17_Witness ==
    /\ Len(behaviors[1]) = 6 /\ NewestRow(behaviors[1]).typing_speed = 90
    /\ baselines[1] # <<>>
    /\ baselines[1][1].total_sessions = 6
    /\ baselines[1][1].avg_typing_speed = 6500

\* C20: training with fewer than 10 samples returns a failure that reports the
\* number of samples provided, writes or replaces no model file and leaves the
\* recorded training status (is_trained, training_samples, last_trained) as
\* it was; so do the train and retrain routes, which refuse with 400
C20_TrainingRefusedBelowTen ==
    [][\A u \in Users :
        /\ (Called(u, "train_ml_model") /\ Len(behaviors[u]) < 10) =>
               /\ response'.status = 400 /\ ~response'.success
               /\ response'.total_behaviors = Len(behaviors[u])
               /\ tables' = tables
        /\ (Called(u, "retrain_ml_model") /\ Len(behaviors[u]) < 10) =>
               /\ response'.status = 400 /\ ~response'.success
               /\ tables' = tables
        /\ \A samples \in 0..9, fault \in TrainFaults :
               LET trained == Train(model_file[u], scaler_file[u], samples,
                                    train_runs + 1, fault)
               IN  /\ ~trained.result.success
                   /\ trained.result.samples_provided = samples
                   /\ trained.model_file = model_file[u]
                   /\ trained.scaler_file = scaler_file[u]
      ]_vars

\* the train route refused on nine stored samples, reported nine, and left the
\* identity without model files and untrained
C20_Witness ==
    /\ response.op = "train_ml_model" /\ response.status = 400
    /\ response.total_behaviors = 9
    /\ Len(behaviors[1]) = 9
    /\ model_file[1] = <<>> /\ scaler_file[1] = <<>>
    /\ ~IsTrained(ml_models[1])

-----------------------------------------------------------------------------
(* Properties of the baseline a direct call of calculate_and_save returns *)

Aggregated == call.fn = "calculate_and_save" /\ call.done /\ call.result # <<>>

\* C18: the common device of a baseline is the mode of the (device_model,
\* device_os) pairs of the samples, so the stored pair was observed together in
\* some sample
C18_CommonDeviceIsObservedPair ==
    Aggregated =>
        \E i \in 1..Len(call.rows) :
            /\ call.rows[i].device_model = call.result[1].common_device_model
            /\ call.rows[i].device_os = call.result[1].common_device_os

\* the typing speeds of a history, in 1/100
TypingSpeeds(rows) == {rows[i].typing_speed * 100 : i \in 1..Len(rows)}

\* the largest difference of two of them, which no standard deviation exceeds
Spread(rows) ==
    CHOOSE d \in {a - b : a \in TypingSpeeds(rows), b \in TypingSpeeds(rows)} :
        \A a \in TypingSpeeds(rows), b \in TypingSpeeds(rows) : a - b <= d

\* C19: a baseline carries the standard deviation of typing speed, the common
\* location and the common session hour under the names the scorer reads, so
\* that with typing speeds of non-zero spread the typing deviation of a risk
\* calculation is |speed - avg| / std * 30 capped at 100: it is 100 whenever
\* |speed - avg| * 30 is at least 100 times the spread
C19_TypingScaledBySpread ==
    /\ Aggregated =>
           {"avg_typing_speed", "std_typing_speed", "common_location_lat",
            "common_location_lng", "common_session_hour"} \subseteq DOMAIN call.result[1]
    /\ (/\ Scored
        /\ Spread(call.history) > 0
        /\ Abs(call.data.typing_speed * 100 - call.baseline.avg_typing_speed) * 30
               >= 100 * Spread(call.history))
           => call.result.typing_deviation = 10000

-----------------------------------------------------------------------------
(* Properties of prediction and of scoring when the model cannot be used *)

Predicted == call.fn = "predict" /\ call.done

\* C21: predict for an identity without a stored detector and scaler pair
\* returns a failure result (success false, anomaly score 0, not anomalous)
\* and changes no state
C21_PredictWithoutModelFails ==
    [][(PendingCall("predict") /\ call'.done) =>
          /\ tables' = tables
          /\ (call.model_file = <<>> \/ call.scaler_file = <<>>) =>
                 /\ ~call'.result.success
                 /\ call'.result.anomaly_score = 0
                 /\ ~call'.result.is_anomaly
      ]_vars

\* predict was called with neither file stored and returned the failure
C21_Witness ==
    /\ Predicted
    /\ call.model_file = <<>> /\ call.scaler_file = <<>>
    /\ ~call.detection.raised
    /\ ~call.result.success /\ call.result.anomaly_score = 0

\* C22: a training that failed at a qualifying sample is attempted again at a
\* later one: an identity with a baseline that is still untrained at 40
\* samples has had more than the one training run at its tenth sample
C22_TrainingAttemptedAgain ==
    \A u \in Users :
        (/\ baselines[u] # <<>>
         /\ Len(behaviors[u]) >= 40
         /\ ~IsTrained(ml_models[u]))
            => train_runs >= 2

\* the model is recorded trained but the prediction did not succeed
FellBack == Scored /\ call.ml_trained /\ ~AnomalyAvailable

\* C23: when the model is recorded trained but cannot be loaded or used, the
\* risk calculation scores statistically (the statistical score and its tier)
\* and the body returned carries a flag that tells this from a blended
\* result: ml_enabled is not set
C23_FallbackFlagged ==
    FellBack =>
        /\ call.result.risk_score = Statistical.risk_score
        /\ TierGiven(call.result) = TierGiven(Statistical)
        /\ ~call.reply.ml_enabled

\* a fault met the scoring: a stored file does not load, or predicting raised
ScoringFault ==
    /\ Scored /\ call.ml_trained
    /\ \/ call.model_file = <<CorruptArtifact>>
       \/ call.scaler_file = <<CorruptArtifact>>
       \/ LoadModel(call.model_file, call.scaler_file) /\ call.detection.raised

\* C24: a fault during the scoring of a risk calculation is surfaced to the
\* caller as a failure and fails closed: such a call neither returns nor
\* records a LOW/ALLOW decision
C24_FaultFailsClosed ==
    ScoringFault =>
        /\ ~call.reply.success
        /\ call.reply.risk_level # "LOW" /\ call.reply.action # "ALLOW"
        /\ call.result.risk_level # "LOW" /\ call.result.action_taken # "ALLOW"

\* a stored file was fitted on other features than those of this build
OtherSchema ==
    \/ call.model_file # <<>> /\ call.model_file[1].features # CurrentFeatures
    \/ call.scaler_file # <<>> /\ call.scaler_file[1].features # CurrentFeatures

\* C25: a stored artifact whose feature schema differs from the current one is
\* detected when it is loaded and treated as no model: no anomaly score is
\* produced from it, by predict or in a risk calculation
C25_NoScoreFromOtherSchema ==
    /\ (Predicted /\ OtherSchema) =>
           ~call.result.success /\ call.result.anomaly_score = 0
    /\ (Scored /\ OtherSchema) => call.result.ml_anomaly_score = 0

\* C26: get_baseline returns the stored baseline of an identity that has one
\* and reports its absence for one that has none; it never fails for an
\* identity with a baseline
C26_GetBaselineReturnsStored ==
    \A u \in Users :
        (response.op = "get_baseline" /\ response.user = u) =>
            IF baselines[u] = <<>>
            THEN response.status = 404
            ELSE /\ response.status = 200 /\ response.success
                 /\ response.total_behaviors = baselines[u][1].total_sessions

-----------------------------------------------------------------------------
(* Properties of two identities using the routes side by side *)

\* what the tables and the model files hold for identity u
StateOf(u) ==
    <<behaviors[u], baselines[u], ml_models[u], model_file[u], scaler_file[u],
      risk_scores[u]>>

\* C27: an operation performed for identity a leaves the samples, the baseline,
\* the training status, the model files and the risk records of every other
\* identity unchanged, and what it decides or stores for a is computed from
\* a's own state
C27_IdentitiesIndependent ==
    [][\A a \in Users :
          (response'.user = a /\ vars' # vars) =>
             /\ \A b \in Users \ {a} : StateOf(b)' = StateOf(b)
             /\ (ScoredStep(a) /\ response'.status = 200) =>
                    \E detection \in Detections, hour_now \in Hours :
                       response' = RiskReply(a,
                                       RiskResult(SampleOf(a), StateBefore(a),
                                                  detection, hour_now),
                                       IsTrained(ml_models[a]))
             /\ (Answered(a, "recalculate_baseline") /\ response'.success) =>
                    /\ baselines'[a] # <<>>
                    /\ baselines'[a][1] \in BaselineRows(behaviors[a])
             /\ (Answered(a, "train_ml_model") /\ response'.success) =>
                    /\ model_file'[a] # <<>>
                    /\ model_file'[a][1].samples = Len(behaviors[a])
      ]_vars

\* the second identity, scored once, recalculated its baseline from its own six
\* samples typed at 90 while the first holds ten samples typed at 60 and a
\* trained model
C27_Witness ==
    /\ response.op = "recalculate_baseline" /\ response.user = 2 /\ response.success
    /\ baselines[2] # <<>> /\ baselines[2][1].avg_typing_speed = 9000
    /\ baselines[2][1].total_sessions = 6
    /\ risk_scores[2].n >= 1
    /\ Len(behaviors[1]) = 10 /\ IsTrained(ml_models[1])
    /\ baselines[1] # <<>> /\ baselines[1][1].avg_typing_speed = 6000

\* the sample of the scored call names a place and an hour away from the
\* averages of the baseline it is scored against
FarFromBaseline ==
    /\ Has(call.data, "location_lat") /\ Has(call.data, "session_hour")
    /\ Abs(call.data.location_lat * 100 - call.baseline.avg_location_lat) >= 2000
    /\ Abs(call.data.session_hour * 100 - call.baseline.avg_session_hour) >= 900

\* C28: an evaluate scored against a stored baseline without an anomaly score
\* has location and time sub-scores 0 and a risk score of at most 50 (typing at
\* most 100 * 0.30 plus device at most 80 * 0.25), so it is never HIGH or BLOCK;
\* a HIGH or BLOCK result is one with an anomaly score blended in
C28_StatisticalAtMostFifty ==
    Scored =>
        /\ ~AnomalyAvailable =>
               /\ call.result.location_deviation = 0
               /\ call.result.time_deviation = 0
               /\ call.result.typing_deviation <= 10000
               /\ call.result.device_deviation <= 8000
               /\ call.result.risk_score <= 5000
               /\ call.result.risk_level # "HIGH"
               /\ call.result.action_taken # "BLOCK"
        /\ (call.result.risk_level = "HIGH" \/ call.result.action_taken = "BLOCK") =>
               /\ AnomalyAvailable
               /\ call.result.ml_anomaly_score > 0

\* a sample typed at 300 on an unseen device, far from the place and the hour
\* of the baseline, was scored without an anomaly score: typing 100, device 80,
\* location and time 0, risk score 50, MEDIUM
C28_Witness ==
    /\ Scored /\ ~AnomalyAvailable /\ FarFromBaseline
    /\ call.result.typing_deviation = 10000
    /\ call.result.device_deviation = 8000
    /\ call.result.location_deviation = 0
    /\ call.result.time_deviation = 0
    /\ call.result.risk_score = 5000
    /\ call.result.risk_level = "MEDIUM"

\* the training status of u was written by this step
StatusWritten(u) == ml_models'[u] # ml_models[u]

\* C29: once is_trained is true it stays true after any log, evaluate, train,
\* retrain or predict; while it is true training_samples lies in 10..100 and
\* both files exist; and the step that writes the status is one whose training
\* run has written both files, on as many samples as the status records
C29_TrainedStaysTrained ==
    [][\A u \in Users :
          /\ IsTrained(ml_models[u]) => IsTrained(ml_models'[u])
          /\ IsTrained(ml_models'[u]) =>
                 /\ ml_models'[u][1].training_samples >= MinTrainSamples
                 /\ ml_models'[u][1].training_samples <= 100
                 /\ model_file'[u] # <<>> /\ scaler_file'[u] # <<>>
          /\ StatusWritten(u) =>
                 /\ IsTrained(ml_models'[u])
                 /\ train_runs' = train_runs + 1
                 /\ model_file'[u] = <<Artifact(train_runs', ml_models'[u][1].training_samples)>>
                 /\ scaler_file'[u] = model_file'[u]
      ]_vars

\* with 101 samples stored and a model trained on the latest 100, a forced
\* retraining failed and the model is still recorded trained on 100
C29_Witness ==
    /\ Len(behaviors[1]) = 101
    /\ IsTrained(ml_models[1])
    /\ ml_models[1][1].training_samples = 100
    /\ response.op = "retrain_ml_model" /\ ~response.success

\* the last answer was a risk calculation of u that scored the device 80
FlaggedLast(u) ==
    /\ response.op = "calculate_risk" /\ response.user = u
    /\ response.success /\ response.device = 8000

\* this step is a risk calculation of u on `data`, which names the device
\* model and operating system of the sample u sent last
SamePairAgain(u, data) ==
    /\ ScoredStep(u)
    /\ NewestRow(behaviors'[u]) = BehaviorRow(data)
    /\ Has(data, "device_model") /\ Has(data, "device_os")
    /\ NewestRow(behaviors[u]).device_model = data.device_model
    /\ NewestRow(behaviors[u]).device_os = data.device_os

\* C30: with one request at a time, a risk calculation that scored the device
\* pair (m, o) of its sample 80 is followed by a device score of 0 when the
\* next request is a risk calculation with the same (m, o): the first sample
\* was stored and is among the 20 most recent
C30_DeviceFlaggedOnceInARow ==
    [][\A u \in Users, data \in DeviceSamples :
          (FlaggedLast(u) /\ SamePairAgain(u, data)) => response'.device = 0]_vars

\* the iPhone was scored 80 on the sixth sample and 0 on the seventh
C30_Witness ==
    /\ Len(behaviors[1]) = 7
    /\ behaviors[1][6].device_model = "iPhone" /\ behaviors[1][6].device_os = "iOS"
    /\ behaviors[1][7] = behaviors[1][6]
    /\ \A i \in 1..5 : behaviors[1][i].device_model = "Pixel"
    /\ risk_scores[1].n = 2
    /\ response.op = "calculate_risk" /\ response.success /\ response.device = 0

=============================================================================
